---- MODULE Spec2Model ----
(***************************************************************************)
(* Market-basket notebook (src/unnamed/part_000): transaction encoding,    *)
(* frequent-itemset mining with apriori and rule derivation with           *)
(* association_rules.  The notebook delegates both steps to                *)
(* mlxtend.frequent_patterns (imported at line 85); the operators below    *)
(* follow what those two calls compute, helper by helper, under the names  *)
(* the library uses.                                                       *)
(*                                                                         *)
(* Numbers: supports and metrics are ratios of small integers.  They are   *)
(* kept as exact fractions <<numerator, denominator>> with a positive      *)
(* denominator (<<1, 0>> is +infinity, numpy's inf) and compared by cross   *)
(* multiplication.                                                         *)
(*                                                                         *)
(* Items are numbered in the sort order of their descriptions: item i      *)
(* sorts before item j iff i < j.  In the worked example bread = 1,        *)
(* butter = 2, milk = 3.                                                   *)
(***************************************************************************)
EXTENDS Integers, Sequences, FiniteSets, TLC

\* ------------------------------------------------------------------ bounds
NItems == 3
MaxTx == 3
MaxRows == 3

Items == 1..NItems

\* ---------------------------------------------------------------- fractions
Rat(n, d) == <<n, d>>
RLeq(a, b) == a[1] * b[2] <= b[1] * a[2]
RLt(a, b) == a[1] * b[2] < b[1] * a[2]
REq(a, b) == a[1] * b[2] = b[1] * a[2]
RDiv(a, b) == <<a[1] * b[2], a[2] * b[1]>>
RMul(a, b) == <<a[1] * b[1], a[2] * b[2]>>
RSub(a, b) == <<a[1] * b[2] - b[1] * a[2], a[2] * b[2]>>
ROne == <<1, 1>>
RZero == <<0, 1>>
RInf == <<1, 0>>

\* ------------------------------------------------------------------- inputs
\* min_support values tried in the apriori cell: 0.001 is the notebook's own
\* (line 157); 0.5 and 1.1 are the values of the documented examples; 0, 2/3
\* and 1 are the edges of the interval (0, 1]; -0.1 is a negative one.
MinSupports ==
    {Rat(-1, 10), Rat(0, 1), Rat(1, 1000), Rat(1, 2), Rat(2, 3), Rat(1, 1),
     Rat(11, 10)}

\* metric names association_rules accepts (those of the design document).
Metrics == {"support", "confidence", "lift", "leverage", "conviction"}

\* min_threshold values tried: 0.1 is the notebook's own (line 167).
MinThresholds == {Rat(1, 10), Rat(2, 3), Rat(1, 1)}

NoValue == "none"

VARIABLES
    pc,                \* which cell has run: loaded, encoded, mined, ruled, error
    transactions,      \* list of transactions (line 112)
    df_transactions,   \* one-hot DataFrame (line 117)
    min_support,       \* argument of the apriori call
    frequent_itemsets, \* DataFrame returned by apriori (line 157)
    metric,            \* arguments of the association_rules call
    min_threshold,
    rules,             \* DataFrame returned by association_rules (line 167)
    error,             \* exception that stopped the notebook, if any
    lv,                \* locals of apriori's level loop while it runs
    data,              \* rows of the csv file (line 89)
    files,             \* pickle files written so far (lines 261-266)
    loaded_rules,      \* table read back from association_rules.pkl (line 298)
    milk_related_rules \* rows selected from loaded_rules (line 302)

vars == <<pc, transactions, df_transactions, min_support, frequent_itemsets,
          metric, min_threshold, rules, error, lv,
          data, files, loaded_rules, milk_related_rules>>

\* what the later cells leave alone
later == <<files, loaded_rules, milk_related_rules>>

\* ------------------------------------------------------------- small helpers
Min(S) == CHOOSE x \in S : \A y \in S : x <= y
Max(S) == CHOOSE x \in S : \A y \in S : y <= x

RECURSIVE sorted_by_choice(_)
sorted_by_choice(S) ==
    IF S = {} THEN <<>>
    ELSE LET m == CHOOSE x \in S : TRUE IN <<m>> \o sorted_by_choice(S \ {m})

RECURSIVE sorted(_)
sorted(S) == IF S = {} THEN <<>>
             ELSE LET m == Min(S) IN <<m>> \o sorted(S \ {m})

\* Transaction lists of 1..MaxTx non-empty baskets.  No column sum depends on
\* the position of a row, so one row order stands for all its permutations:
\* the baskets are numbered and listed in nondecreasing order of their number.
Baskets == (SUBSET Items) \ {{}}
BasketSeq == sorted_by_choice(Baskets)
RECURSIVE NonDecreasing(_)
NonDecreasing(n) ==
    IF n = 0 THEN {<<>>}
    ELSE UNION {{Append(s, b) :
                   b \in {c \in 1..Len(BasketSeq) : s = <<>> \/ s[Len(s)] <= c}} :
                s \in NonDecreasing(n - 1)}
TransactionLists ==
    {[r \in DOMAIN s |-> sorted(BasketSeq[s[r]])] :
        s \in UNION {NonDecreasing(n) : n \in 1..MaxTx}}

Range(f) == {f[i] : i \in DOMAIN f}

\* ------------------------------------------------- TransactionEncoder (l.115)
\* fit: columns_ is the sorted list of the distinct items of all transactions.
fit(trs) == sorted(UNION {Range(trs[r]) : r \in DOMAIN trs})

\* transform: one boolean row per transaction, True in the column of each of
\* its items.
transform(columns_, trs) ==
    [r \in DOMAIN trs |->
        [c \in DOMAIN columns_ |-> columns_[c] \in Range(trs[r])]]

\* pd.DataFrame(te_data, columns=te.columns_)
DataFrame(te_data, columns_) == [columns |-> columns_, X |-> te_data]

\* ------------------------------------------------------------ apriori (l.157)
\* A row counts as soon as it holds one item of the combination.
np_any(row, c) == \E i \in c : row[i]

\* np.all(X[:, combin], axis=2) for one row and one combination
np_all(row, c) == \A i \in c : row[i]

RECURSIVE np_sum(_, _, _)
np_sum(X, c, r) ==
    IF r = 0 THEN 0
    ELSE (IF np_all(X[r], c) THEN 1 ELSE 0) + np_sum(X, c, r - 1)

\* The sum is not divided: the count itself is taken for the support.
_support_count(X, c) == Rat(np_sum(X, c, Len(X)), 1)

\* The sum is divided by the number of columns.
_support_by_columns(X, c) == Rat(np_sum(X, c, Len(X)), Len(X[1]))

\* _support: column sum divided by the number of rows
_support(X, c) == Rat(np_sum(X, c, Len(X)), Len(X))

\* The threshold itself is excluded.
_mask_strict(support, ms) == RLt(ms, support)

\* The comparison is turned around.
_mask_inverted(support, ms) == RLeq(support, ms)

\* _mask: support >= min_support
_mask(support, ms) == RLeq(ms, support)

\* generate_new_combinations: every combination of the previous level is
\* extended by each item of that level greater than its last (largest) item.
\* An old combination is extended by the next column only.
generate_next_column_only(old_combinations) ==
    LET items_types_in_previous_step == UNION old_combinations
    IN  UNION {{old \cup {item} :
                  item \in {i \in items_types_in_previous_step : i = Max(old) + 1}} :
               old \in old_combinations}

\* generate_new_combinations: each combination of the previous level, extended
\* by every item of that level greater than its last one
generate_new_combinations(old_combinations) ==
    LET items_types_in_previous_step == UNION old_combinations
    IN  UNION {{old \cup {item} :
                  item \in {i \in items_types_in_previous_step : i > Max(old)}} :
               old \in old_combinations}

\* Level 1: the columns whose support reaches min_support, with that support.
level_one(X, ncols, ms) ==
    LET keep == {c \in {{i} : i \in 1..ncols} : _mask(_support(X, c), ms)}
    IN  [c \in keep |-> _support(X, c)]

\* Every counted combination is kept.
level_next_unmasked(support, ms) == support

\* The rows of a level that pass the mask, given the supports counted for it.
level_next(support, ms) ==
    LET keep == {c \in DOMAIN support : _mask(support[c], ms)}
    IN  [c \in keep |-> support[c]]

\* The while loop: one more level per turn, until no combination can be
\* formed or none of the formed ones passes the mask.
RECURSIVE apriori_loop(_, _, _, _)
apriori_loop(X, ms, dict, max_itemset) ==
    LET combin == generate_new_combinations(DOMAIN dict[max_itemset])
        next == level_next([c \in combin |-> _support(X, c)], ms)
    IN  IF combin = {} THEN dict
        ELSE IF DOMAIN next # {}
             THEN apriori_loop(X, ms, dict @@ ((max_itemset + 1) :> next),
                               max_itemset + 1)
             ELSE dict

\* Only the last level reaches the table.
res_df_last_level(df, dict) ==
    LET k == Max(DOMAIN dict)
    IN  {[support |-> dict[k][c], itemsets |-> {df.columns[i] : i \in c}] :
            c \in DOMAIN dict[k]}

\* res_df with use_colnames=True: one row per kept combination, its column
\* indices replaced by the column names.
res_df(df, dict) ==
    UNION {{[support |-> dict[k][c], itemsets |-> {df.columns[i] : i \in c}] :
              c \in DOMAIN dict[k]} : k \in DOMAIN dict}

\* Zero is let through.
negative_min_support(ms) == RLt(ms, RZero)

\* if min_support <= 0.0: raise ValueError
invalid_min_support(ms) == RLeq(ms, RZero)

\* apriori(df, min_support, use_colnames=True) for min_support > 0
apriori(df, ms) ==
    res_df(df, apriori_loop(df.X, ms,
                            1 :> level_one(df.X, Len(df.columns), ms), 1))

\* -------------------------------------------------- association_rules (l.167)
\* The two supports of the division are swapped.
confidence_swapped(sAC, sA, sC) == RDiv(sA, sAC)

\* metric_dict: each metric from sAC = support(A u C), sA and sC
confidence_helper(sAC, sA, sC) == RDiv(sAC, sA)
lift_helper(sAC, sA, sC) == RDiv(confidence_helper(sAC, sA, sC), sC)
leverage_helper(sAC, sA, sC) == RSub(sAC, RMul(sA, sC))
\* Conviction is reported infinite for every rule.
conviction_always_inf(sAC, sA, sC) == RInf

conviction_helper(sAC, sA, sC) ==
    LET confidence == confidence_helper(sAC, sA, sC)
    IN  IF RLt(confidence, ROne)
        THEN RDiv(RSub(ROne, sC), RSub(ROne, confidence))
        ELSE RInf

metric_dict(m, sAC, sA, sC) ==
    CASE m = "support" -> sAC
      [] m = "confidence" -> confidence_helper(sAC, sA, sC)
      [] m = "lift" -> lift_helper(sAC, sA, sC)
      [] m = "leverage" -> leverage_helper(sAC, sA, sC)
      [] m = "conviction" -> conviction_helper(sAC, sA, sC)

\* The threshold itself is excluded.
score_strict(score, th) == RLt(th, score)

\* score >= min_threshold
score_passes(score, th) == RLeq(th, score)

\* combinations(k, r=idx) for idx = len(k)-1 .. 1: the antecedents tried for
\* the frequent itemset k
antecedents_of(k) == (SUBSET k) \ {{}, k}

\* The antecedent is not taken out of the itemset.
consequent_whole(k, a) == k

\* consequent = k.difference(antecedent)
consequent_of(k, a) == k \ a

\* frequent_items_dict: itemset -> support, from the rows of the table
frequent_items_dict(df) ==
    [k \in {row.itemsets : row \in df} |->
        (CHOOSE row \in df : row.itemsets = k).support]

\* A lookup of an antecedent or consequent that is no key of the dictionary
\* raises KeyError.
missing_key(df) ==
    LET d == frequent_items_dict(df)
    IN  \E k \in DOMAIN d : \E a \in antecedents_of(k) :
            a \notin DOMAIN d \/ consequent_of(k, a) \notin DOMAIN d

\* The rule table: one row per (antecedent, consequent) whose score passes.
rule_rows(df, m, th) ==
    LET d == frequent_items_dict(df)
        row(k, a) ==
            LET sAC == d[k]
                sA == d[a]
                sC == d[consequent_of(k, a)]
            IN  [antecedents |-> a, consequents |-> consequent_of(k, a),
                 antecedent_support |-> sA, consequent_support |-> sC,
                 support |-> sAC,
                 confidence |-> confidence_helper(sAC, sA, sC),
                 lift |-> lift_helper(sAC, sA, sC),
                 leverage |-> leverage_helper(sAC, sA, sC),
                 conviction |-> conviction_helper(sAC, sA, sC)]
    IN  UNION {{row(k, a) :
                  a \in {b \in antecedents_of(k) :
                           score_passes(metric_dict(m, d[k], d[b],
                                                    d[consequent_of(k, b)]), th)}} :
               k \in DOMAIN d}

\* The metric is looked up in metric_dict without the check before it.
association_rules_raises_lookup(df, m) ==
    IF df = {} THEN "ValueError"
    ELSE IF m \notin Metrics THEN "KeyError"
    ELSE IF missing_key(df) THEN "KeyError"
    ELSE "none"

\* What the call does: the exception it raises, or "none".
association_rules_raises(df, m) ==
    IF df = {} THEN "ValueError"
    ELSE IF m \notin Metrics THEN "ValueError"
    ELSE IF missing_key(df) THEN "KeyError"
    ELSE "none"

\* -------------------------------------------------------------------- cells
Init ==
    /\ pc = "loaded"
    /\ transactions \in TransactionLists
    /\ df_transactions = NoValue
    /\ min_support = NoValue
    /\ frequent_itemsets = NoValue
    /\ metric = NoValue
    /\ min_threshold = NoValue
    /\ rules = NoValue
    /\ error = "none"
    /\ lv = NoValue
    /\ data = NoValue
    /\ files = <<>>
    /\ loaded_rules = NoValue
    /\ milk_related_rules = NoValue

\* Data Preprocessing cell (lines 115-117)
Encode ==
    /\ pc = "loaded"
    /\ pc' = "encoded"
    /\ LET columns_ == fit(transactions)
       IN  df_transactions' = DataFrame(transform(columns_, transactions), columns_)
    /\ UNCHANGED <<transactions, min_support, frequent_itemsets, metric,
                   min_threshold, rules, error, lv,
                   data, later>>

\* Model Building cell, first call (line 157): apriori raises ValueError for
\* min_support <= 0 and returns the table otherwise.
Apriori(ms) ==
    /\ pc = "encoded"
    /\ min_support' = ms
    /\ IF invalid_min_support(ms)
       THEN /\ error' = "ValueError"
            /\ pc' = "error"
            /\ UNCHANGED frequent_itemsets
       ELSE /\ frequent_itemsets' = apriori(df_transactions, ms)
            /\ pc' = "mined"
            /\ UNCHANGED error
    /\ UNCHANGED <<transactions, df_transactions, metric, min_threshold, rules, lv,
                   data, later>>

\* Model Building cell, second call (line 167).  The cell prints a message when
\* frequent_itemsets is empty (lines 160-161) and goes on to the call either way.
AssociationRules(m, th) ==
    /\ pc = "mined"
    /\ metric' = m
    /\ min_threshold' = th
    /\ LET raised == association_rules_raises(frequent_itemsets, m)
       IN  IF raised # "none"
           THEN /\ error' = raised
                /\ pc' = "error"
                /\ UNCHANGED rules
           ELSE /\ rules' = rule_rows(frequent_itemsets, m, th)
                /\ pc' = "ruled"
                /\ UNCHANGED error
    /\ UNCHANGED <<transactions, df_transactions, min_support, frequent_itemsets, lv,
                   data, later>>

Next ==
    \/ Encode
    \/ \E ms \in MinSupports : Apriori(ms)
    \/ \E m \in Metrics, th \in MinThresholds : AssociationRules(m, th)

Spec == Init /\ [][Next]_vars

\* ---------------------------------------- from the csv rows to the one-hot table
\* pd.to_datetime(..., errors='coerce'): a date string that parses becomes its
\* day (numbered from the first day of the file), any other string becomes NaT.
NaT == 0
to_datetime(text) ==
    CASE text = "01-01-2015" -> 1
      [] text = "02-01-2015" -> 2
      [] OTHER -> NaT

\* Member_number and Date strings of the rows read from the file; the last is
\* a Date that does not parse.
RowKeys == {<<1, "01-01-2015">>, <<1, "02-01-2015">>, <<2, "01-01-2015">>,
            <<1, "2015/13/45">>}
DataRows ==
    {[Member_number |-> k[1], Date |-> k[2], itemDescription |-> i] :
        k \in RowKeys, i \in Items}

\* groupby(['Member_number', 'Date'])
group_key(row) == <<row.Member_number, row.Date>>

\* groupby leaves out the rows whose key holds a missing value (dropna=True).
key_is_na(k) == k[2] = NaT

\* groupby orders the groups by key (sort=True).
key_leq(a, b) == a[1] < b[1] \/ (a[1] = b[1] /\ a[2] <= b[2])
RECURSIVE sorted_keys(_)
sorted_keys(S) ==
    IF S = {} THEN <<>>
    ELSE LET m == CHOOSE x \in S : \A y \in S : key_leq(x, y)
         IN  <<m>> \o sorted_keys(S \ {m})

\* ['itemDescription'].apply(list): the items of the rows of one group, in
\* row order, repeated as often as the rows repeat them.
RECURSIVE apply_list(_, _)
apply_list(rows, k) ==
    IF rows = <<>> THEN <<>>
    ELSE (IF group_key(Head(rows)) = k
          THEN <<Head(rows).itemDescription>> ELSE <<>>)
         \o apply_list(Tail(rows), k)

\* ....values.tolist(): one list per group, in key order
groupby_lists(rows) ==
    LET keys == sorted_keys({k \in {group_key(rows[r]) : r \in DOMAIN rows} :
                               ~key_is_na(k)})
    IN  [g \in DOMAIN keys |-> apply_list(rows, keys[g])]

InitBuild ==
    /\ pc = "read"
    /\ data \in UNION {[1..n -> DataRows] : n \in 0..MaxRows}
    /\ transactions = NoValue
    /\ df_transactions = NoValue
    /\ min_support = NoValue
    /\ frequent_itemsets = NoValue
    /\ metric = NoValue
    /\ min_threshold = NoValue
    /\ rules = NoValue
    /\ error = "none"
    /\ lv = NoValue
    /\ files = <<>>
    /\ loaded_rules = NoValue
    /\ milk_related_rules = NoValue

\* data['Date'] = pd.to_datetime(data['Date'], errors='coerce')  (line 109)
ToDatetime ==
    /\ pc = "read"
    /\ data' = [r \in DOMAIN data |->
                  [data[r] EXCEPT !.Date = to_datetime(@)]]
    /\ pc' = "dated"
    /\ UNCHANGED <<transactions, df_transactions, min_support, frequent_itemsets,
                   metric, min_threshold, rules, error, lv, later>>

\* transactions = data.groupby([...])[...].apply(list).values.tolist()  (line 112)
GroupBy ==
    /\ pc = "dated"
    /\ transactions' = groupby_lists(data)
    /\ pc' = "loaded"
    /\ UNCHANGED <<df_transactions, min_support, frequent_itemsets, metric,
                   min_threshold, rules, error, lv, data, later>>

NextBuild ==
    \/ ToDatetime
    \/ GroupBy
    \/ Encode

SpecBuild == InitBuild /\ [][NextBuild]_vars

\* ------------------------------------- the notebook's own call, and a bad one
\* metric names passed in these runs: "confidence" is the notebook's (line
\* 167), "accuracy" is no key of metric_dict.
CalledMetrics == {"confidence", "accuracy"}

\* min_threshold passed in these runs: the notebook's 0.1 (line 167).
CalledThresholds == {Rat(1, 10)}

\* pickle writes a table row by row and a row column by column; a frozenset
\* goes out as the list of its elements, a float as it is, and the loader
\* rebuilds the frozenset from the list.
set_columns == {"antecedents", "consequents", "itemsets"}
dumps_cell(column, value) ==
    IF column \in set_columns THEN <<"frozenset", sorted_by_choice(value)>>
    ELSE <<"float", value>>

\* Only the first element of the list is taken back.
loads_cell_first(bytes) ==
    IF bytes[1] = "frozenset" THEN {Head(bytes[2])} ELSE bytes[2]

loads_cell(bytes) ==
    IF bytes[1] = "frozenset" THEN Range(bytes[2]) ELSE bytes[2]
dumps(table) ==
    LET rows == sorted_by_choice(table)
    IN  [i \in DOMAIN rows |->
            LET columns == sorted_by_choice(DOMAIN rows[i])
            IN  [j \in DOMAIN columns |->
                    <<columns[j], dumps_cell(columns[j], rows[i][columns[j]])>>]]
loads(bytes) ==
    {[column \in {cell[1] : cell \in Range(row)} |->
          loads_cell((CHOOSE cell \in Range(row) : cell[1] = column)[2])] :
        row \in Range(bytes)}

\* open('association_rules.pkl', 'rb')  (line 297)
load_path == "association_rules.pkl"

\* The item descriptions, as characters, in their sort order.
item_names ==
    <<  <<"b", "r", "e", "a", "d">>,
        <<"w", "h", "o", "l", "e", " ", "m", "i", "l", "k">>,
        <<"w", "h", "o", "l", "e", " ", "m", "i", "l", "k", " ",
          "p", "o", "w", "d", "e", "r">>,
        <<"y", "o", "g", "u", "r", "t">>,
        <<"z", "w", "i", "e", "b", "a", "c", "k">> >>

\* 'whole milk'
needle == <<"w", "h", "o", "l", "e", " ", "m", "i", "l", "k">>

\* sub in text, for two strings
contains(text, sub) ==
    \E i \in 1..(Len(text) - Len(sub) + 1) :
        SubSeq(text, i, i + Len(sub) - 1) = sub

\* str(x) of a frozenset of item descriptions, its elements in the order the
\* hashes of this run put them in
RECURSIVE repr_elements(_)
repr_elements(elements) ==
    IF elements = <<>> THEN <<>>
    ELSE <<"'">> \o item_names[Head(elements)] \o <<"'">>
         \o (IF Tail(elements) = <<>> THEN <<>> ELSE <<",", " ">>)
         \o repr_elements(Tail(elements))
str(x, hash_order) ==
    LET elements == SelectSeq(hash_order, LAMBDA i : i \in x)
        open == <<"f", "r", "o", "z", "e", "n", "s", "e", "t", "(">>
    IN  IF x = {} THEN open \o <<")">>
        ELSE open \o <<"{">> \o repr_elements(elements) \o <<"}", ")">>

\* The iteration orders a run can give the items.
hash_orders == {h \in [1..NItems -> Items] : Range(h) = Items}

\* pickle.dump(frequent_itemsets, f); pickle.dump(rules, f)  (lines 261-266)
Save ==
    /\ pc = "ruled"
    /\ files' = ("frequent_itemsets.pkl" :> dumps(frequent_itemsets))
                 @@ ("association_rules.pkl" :> dumps(rules))
    /\ pc' = "saved"
    /\ UNCHANGED <<transactions, df_transactions, min_support, frequent_itemsets,
                   metric, min_threshold, rules, error, lv, data, loaded_rules,
                   milk_related_rules>>

\* loaded_rules = pickle.load(f)  (lines 297-298)
Load ==
    /\ pc = "saved"
    /\ loaded_rules' = loads(files[load_path])
    /\ pc' = "reloaded"
    /\ UNCHANGED <<transactions, df_transactions, min_support, frequent_itemsets,
                   metric, min_threshold, rules, error, lv, data, files,
                   milk_related_rules>>

\* milk_related_rules = loaded_rules[...apply(lambda x: 'whole milk' in str(x))]
\* (line 302)
Query ==
    /\ pc = "reloaded"
    /\ pc' = "queried"
    /\ \E hash_order \in hash_orders :
          milk_related_rules' =
              {r \in loaded_rules : contains(str(r.antecedents, hash_order), needle)}
    /\ UNCHANGED <<transactions, df_transactions, min_support, frequent_itemsets,
                   metric, min_threshold, rules, error, lv, data, files,
                   loaded_rules>>

NextSaved ==
    \/ Encode
    \/ \E ms \in MinSupports : Apriori(ms)
    \/ \E m \in CalledMetrics, th \in CalledThresholds : AssociationRules(m, th)

SpecSaved == Init /\ [][NextSaved]_vars

\* The notebook from the encoding to the query, with its own arguments:
\* min_support 0.001 (line 157; one half as a second value), metric
\* "confidence" and min_threshold 0.1 (line 167).
SavedSupports == {Rat(1, 1000), Rat(1, 2)}
NextReloaded ==
    \/ Encode
    \/ \E ms \in SavedSupports : Apriori(ms)
    \/ \E th \in CalledThresholds : AssociationRules("confidence", th)
    \/ Save
    \/ Load
    \/ Query

SpecReloaded == Init /\ [][NextReloaded]_vars

\* ------------------------------------------- the worked example as the input
\* T1 = {milk, bread}, T2 = {milk, bread, butter}, T3 = {milk},
\* T4 = {bread, butter}, with bread = 1, butter = 2, milk = 3, in any row order.
ExampleRows == <<(<<1, 3>>), (<<1, 2, 3>>), (<<3>>), (<<1, 2>>)>>

InitExample ==
    /\ pc = "loaded"
    /\ transactions \in
          {[r \in DOMAIN ExampleRows |-> ExampleRows[q[r]]] :
              q \in Permutations(DOMAIN ExampleRows)}
    /\ df_transactions = NoValue
    /\ min_support = NoValue
    /\ frequent_itemsets = NoValue
    /\ metric = NoValue
    /\ min_threshold = NoValue
    /\ rules = NoValue
    /\ error = "none"
    /\ lv = NoValue
    /\ data = NoValue
    /\ files = <<>>
    /\ loaded_rules = NoValue
    /\ milk_related_rules = NoValue

SpecExample == InitExample /\ [][Next]_vars

\* ------------------------------------ apriori, one step of its loop at a time
\* The same call as Apriori, with the level loop unrolled into its steps and
\* the supports of one level's combinations counted one combination at a
\* time, in any order (numpy counts them in one vectorised reduction).
AprioriBegin(ms) ==
    /\ pc = "encoded"
    /\ IF invalid_min_support(ms)
       THEN /\ pc' = "error"
            /\ error' = "ValueError"
            /\ UNCHANGED lv
       ELSE /\ pc' = "loop"
            /\ lv' = [max_itemset |-> 1,
                      dict |-> 1 :> level_one(df_transactions.X,
                                              Len(df_transactions.columns), ms),
                      combin |-> {},
                      support |-> <<>>]
            /\ UNCHANGED error
    /\ min_support' = ms
    /\ UNCHANGED <<transactions, df_transactions, frequent_itemsets, metric,
                   min_threshold, rules,
                   data, later>>

\* combin = generate_new_combinations(...); if combin.size == 0: break
GenerateCombinations ==
    /\ pc = "loop"
    /\ LET combin == generate_new_combinations(DOMAIN lv.dict[lv.max_itemset])
       IN  /\ lv' = [lv EXCEPT !.combin = combin, !.support = <<>>]
           /\ pc' = IF combin = {} THEN "collect" ELSE "count"
    /\ UNCHANGED <<transactions, df_transactions, min_support, frequent_itemsets,
                   metric, min_threshold, rules, error,
                   data, later>>

\* the support of one combination of the level
CountCombination(c) ==
    /\ pc = "count"
    /\ c \in lv.combin \ DOMAIN lv.support
    /\ lv' = [lv EXCEPT !.support = @ @@ (c :> _support(df_transactions.X, c))]
    /\ UNCHANGED <<pc, transactions, df_transactions, min_support,
                   frequent_itemsets, metric, min_threshold, rules, error,
                   data, later>>

\* The level is merged as soon as one count is in.
level_counted_early(l) == DOMAIN l.support # {}

\* The mask is applied to the support array of the whole level.
level_counted(l) == DOMAIN l.support = l.combin

\* _mask = support >= min_support; if any(_mask): next level, else: break
MergeLevel ==
    /\ pc = "count"
    /\ level_counted(lv)
    /\ LET next == level_next(lv.support, min_support)
       IN  IF DOMAIN next # {}
           THEN /\ lv' = [lv EXCEPT !.dict = @ @@ ((lv.max_itemset + 1) :> next),
                                    !.max_itemset = @ + 1]
                /\ pc' = "loop"
           ELSE /\ pc' = "collect"
                /\ UNCHANGED lv
    /\ UNCHANGED <<transactions, df_transactions, min_support, frequent_itemsets,
                   metric, min_threshold, rules, error,
                   data, later>>

\* all_res / res_df: the table of all levels
Collect ==
    /\ pc = "collect"
    /\ pc' = "mined"
    /\ frequent_itemsets' = res_df(df_transactions, lv.dict)
    /\ UNCHANGED <<transactions, df_transactions, min_support, metric,
                   min_threshold, rules, error, lv,
                   data, later>>

NextLevels ==
    \/ Encode
    \/ \E ms \in MinSupports : AprioriBegin(ms)
    \/ GenerateCombinations
    \/ \E c \in SUBSET Items : CountCombination(c)
    \/ MergeLevel
    \/ Collect

SpecLevels == Init /\ [][NextLevels]_vars

\* The same cells with every name bound from the start: a name no cell has
\* assigned yet holds an empty value of the type it will hold.
InitLevelsFair ==
    /\ pc = "start"
    /\ transactions = <<>>
    /\ df_transactions = DataFrame(<<>>, <<>>)
    /\ min_support = RZero
    /\ frequent_itemsets = {}
    /\ metric = NoValue
    /\ min_threshold = NoValue
    /\ rules = NoValue
    /\ error = "none"
    /\ lv = [max_itemset |-> 0, dict |-> <<>>, combin |-> {}, support |-> <<>>]
    /\ data = NoValue
    /\ files = <<>>
    /\ loaded_rules = NoValue
    /\ milk_related_rules = NoValue

\* min_support of the runs followed to their end: the notebook's 0.001
\* (line 157), one half, and a rejected zero.
LoopSupports == {Rat(0, 1), Rat(1, 1000), Rat(1, 2)}

\* The combinations of a level are counted in the order of the rows of
\* combin, which is the lexicographic one.
first_uncounted(l) ==
    LET uncounted == l.combin \ DOMAIN l.support
    IN  CHOOSE c \in uncounted :
            \A d \in uncounted \ {c} : Min((c \ d) \cup (d \ c)) \in c
CountInOrder ==
    /\ pc = "count"
    /\ lv.combin \ DOMAIN lv.support # {}
    /\ CountCombination(first_uncounted(lv))

\* The file is read and grouped: any transaction list can come out.
ReadTransactions ==
    /\ pc = "start"
    /\ pc' = "loaded"
    /\ transactions' \in TransactionLists
    /\ UNCHANGED <<df_transactions, min_support, frequent_itemsets, metric,
                   min_threshold, rules, error, lv, data, later>>

NextLevelsFair ==
    \/ ReadTransactions
    \/ Encode
    \/ \E ms \in LoopSupports : AprioriBegin(ms)
    \/ GenerateCombinations
    \/ CountInOrder
    \/ MergeLevel
    \/ Collect

\* Every step of the call moves pc or counts one more combination.
progress ==
    <<pc, IF pc = "count" THEN Cardinality(DOMAIN lv.support) ELSE 0>>

\* A cell that has been started runs on: each step of the call is taken as
\* long as it is the next one.
SpecLevelsFair ==
    InitLevelsFair /\ [][NextLevelsFair]_vars /\ WF_progress(NextLevelsFair)

\* ================================================================ properties
\* What the dataset says, independently of the tables the calls return.
N == Len(transactions)
SupportCount(I) ==
    Cardinality({r \in DOMAIN transactions : I \subseteq Range(transactions[r])})
Support(I) == Rat(SupportCount(I), N)
Itemsets == (SUBSET Items) \ {{}}
IsFrequent(I, s) == RLeq(s, Support(I))
ValidMinSupport(s) == RLt(RZero, s) /\ RLeq(s, ROne)
Mined == pc = "mined" \/ pc = "ruled" \/ (pc = "error" /\ metric # NoValue)
ItemsetsOf(df) == {row.itemsets : row \in df}

C2_AntiMonotone ==
    Mined =>
        \A row \in frequent_itemsets :
            \A A \in (SUBSET row.itemsets) \ {{}} : A \in ItemsetsOf(frequent_itemsets)

C2_Witness ==
    /\ pc = "mined"
    /\ \E row \in frequent_itemsets : Cardinality(row.itemsets) = 3
    /\ Cardinality(frequent_itemsets) = 7

\* C3: every support of the returned table lies in [0, 1], and the support of
\* an itemset is at most the support of each of its non-empty subsets.
C3_SupportBound ==
    Mined =>
        /\ \A row \in frequent_itemsets :
              RLeq(RZero, row.support) /\ RLeq(row.support, ROne)
        /\ \A r1, r2 \in frequent_itemsets :
              r2.itemsets \subseteq r1.itemsets => RLeq(r1.support, r2.support)

C3_Witness ==
    /\ pc = "mined"
    /\ \E r1, r2 \in frequent_itemsets :
          /\ r2.itemsets \subseteq r1.itemsets
          /\ RLt(r1.support, r2.support)
          /\ REq(r2.support, ROne)

\* C4: antecedent and consequent of every returned rule are disjoint, and
\* their union is an itemset of the frequent-itemset table the rules were
\* generated from.
C4_RuleValid ==
    (pc = "ruled") =>
        \A r \in rules :
            /\ r.antecedents \cap r.consequents = {}
            /\ (r.antecedents \cup r.consequents) \in ItemsetsOf(frequent_itemsets)

C4_Witness ==
    /\ pc = "ruled"
    /\ \E r \in rules : Cardinality(r.antecedents) = 2
    /\ \E r \in rules : Cardinality(r.consequents) = 2

\* The metrics as the design document defines them, from the dataset.
Confidence(I, A) == RDiv(Support(I), Support(A))
Lift(I, A) == RDiv(Confidence(I, A), Support(I \ A))
MetricValue(m, I, A) ==
    CASE m = "support" -> Support(I)
      [] m = "confidence" -> Confidence(I, A)
      [] m = "lift" -> Lift(I, A)
      [] m = "leverage" -> RSub(Support(I), RMul(Support(A), Support(I \ A)))
      [] m = "conviction" ->
            IF REq(Confidence(I, A), ROne) THEN RInf
            ELSE RDiv(RSub(ROne, Support(I \ A)), RSub(ROne, Confidence(I, A)))
RuleCandidates(s) ==
    UNION {{<<A, I \ A>> : A \in (SUBSET I) \ {{}, I}} :
             I \in {J \in Itemsets : Cardinality(J) >= 2 /\ IsFrequent(J, s)}}

\* C5: the returned rules are exactly the pairs (A, I \ A), I a frequent itemset
\* of size >= 2 and A a non-empty proper subset of I, whose value of the
\* selected metric is >= min_threshold; each carries support(I),
\* confidence = support(I)/support(A) and lift = confidence/support(I \ A).
C5_GenerateExact ==
    (pc = "ruled" /\ ValidMinSupport(min_support)) =>
        /\ {<<r.antecedents, r.consequents>> : r \in rules} =
              {ac \in RuleCandidates(min_support) :
                  RLeq(min_threshold, MetricValue(metric, ac[1] \cup ac[2], ac[1]))}
        /\ \A r \in rules :
              LET I == r.antecedents \cup r.consequents
              IN  /\ REq(r.support, Support(I))
                  /\ REq(r.confidence, Confidence(I, r.antecedents))
                  /\ REq(r.lift, Lift(I, r.antecedents))

C5_Witness ==
    /\ pc = "ruled" /\ ValidMinSupport(min_support) /\ metric = "lift"
    /\ rules # {}
    /\ \E r \in rules : REq(r.lift, min_threshold)
    /\ \E ac \in RuleCandidates(min_support) :
          \A r \in rules : <<r.antecedents, r.consequents>> # ac

\* C6: the confidence of every returned rule lies in [0, 1].
C6_ConfidenceBound ==
    (pc = "ruled") =>
        \A r \in rules : RLeq(RZero, r.confidence) /\ RLeq(r.confidence, ROne)

C6_Witness ==
    /\ pc = "ruled"
    /\ \E r \in rules : REq(r.confidence, ROne)
    /\ \E r \in rules : RLt(r.confidence, ROne)

\* C7 (as amended): on the worked example with min_support = 0.5 the table
\* holds five itemsets: {milk} 0.75, {bread} 0.75, {butter} 0.5,
\* {milk, bread} 0.5 and {bread, butter} 0.5; the rule (milk) -> (bread) has
\* support 1/2, confidence 2/3 and lift 8/9, and is returned under the metric
\* confidence exactly when min_threshold <= 2/3.
C7_Example ==
    (Mined /\ min_support = Rat(1, 2)) =>
        /\ ItemsetsOf(frequent_itemsets) = {{3}, {1}, {2}, {1, 3}, {1, 2}}
        /\ \A row \in frequent_itemsets :
              REq(row.support,
                  IF row.itemsets \in {{3}, {1}} THEN Rat(3, 4) ELSE Rat(1, 2))
        /\ (pc = "ruled") =>
              /\ \A r \in rules :
                    (r.antecedents = {3} /\ r.consequents = {1}) =>
                        /\ REq(r.support, Rat(1, 2))
                        /\ REq(r.confidence, Rat(2, 3))
                        /\ REq(r.lift, Rat(8, 9))
              /\ (metric = "confidence") =>
                    ((\E r \in rules : r.antecedents = {3} /\ r.consequents = {1})
                        <=> RLeq(min_threshold, Rat(2, 3)))

C7_Witness ==
    /\ pc = "ruled" /\ min_support = Rat(1, 2)
    /\ metric = "confidence" /\ min_threshold = Rat(2, 3)
    /\ \E r \in rules : r.antecedents = {3} /\ r.consequents = {1}
    /\ transactions[1] = <<1, 3>> /\ transactions[4] = <<1, 2>>

\* C7 as first stated: on the worked example with min_support = 0.5 the
\* frequent singletons are {milk} and {bread}, both 0.75, and the frequent
\* pair is {milk, bread}, 0.5.
C7_AsStated ==
    (Mined /\ min_support = Rat(1, 2)) =>
        /\ {I \in ItemsetsOf(frequent_itemsets) : Cardinality(I) = 1} = {{3}, {1}}
        /\ {I \in ItemsetsOf(frequent_itemsets) : Cardinality(I) = 2} = {{1, 3}}
        /\ \A row \in frequent_itemsets :
              /\ row.itemsets \in {{3}, {1}} => REq(row.support, Rat(3, 4))
              /\ row.itemsets = {1, 3} => REq(row.support, Rat(1, 2))

\* C8: raising min_support never adds a row: for s2 >= min_support the table
\* mined at s2 is contained in the table mined at min_support.
C8_MonotoneThreshold ==
    (pc = "mined" /\ RLt(RZero, min_support)) =>
        \A s2 \in MinSupports :
            RLeq(min_support, s2) => apriori(df_transactions, s2) \subseteq frequent_itemsets

C8_Witness ==
    /\ pc = "mined" /\ RLt(RZero, min_support)
    /\ \E s2 \in MinSupports :
          /\ RLt(min_support, s2)
          /\ apriori(df_transactions, s2) # {}
          /\ apriori(df_transactions, s2) # frequent_itemsets

C10_EmptyIsNoError ==
    (pc = "error") => ~ValidMinSupport(min_support)

\* The apriori call has just returned or raised.
AprioriDone == (pc = "mined" \/ pc = "error") /\ metric = NoValue

\* C12: with min_support > 1 apriori raises nothing and returns the empty
\* table, whatever the dataset.
C12_AboveOneIsEmpty ==
    (AprioriDone /\ RLt(ROne, min_support)) =>
        /\ pc = "mined"
        /\ error = "none"
        /\ frequent_itemsets = {}

C12_Witness ==
    /\ pc = "mined" /\ RLt(ROne, min_support)
    /\ Len(transactions) = 3
    /\ \E i \in Items : SupportCount({i}) = 3
    /\ frequent_itemsets = {}

\* C13 (as amended): with min_support <= 0 apriori raises ValueError and
\* returns no table.
C13_NonPositiveRaises ==
    (AprioriDone /\ RLeq(min_support, RZero)) =>
        /\ pc = "error"
        /\ error = "ValueError"
        /\ frequent_itemsets = NoValue

C13_Witness ==
    /\ pc = "error" /\ metric = NoValue
    /\ REq(min_support, RZero)
    /\ error = "ValueError"
    /\ Len(transactions) = 2

\* C13 as first stated: with min_support <= 0 mining fails with
\* InvalidThresholdError and returns no table.
C13_AsStated ==
    (AprioriDone /\ RLeq(min_support, RZero)) =>
        /\ pc = "error"
        /\ error = "InvalidThresholdError"
        /\ frequent_itemsets = NoValue

\* The association_rules call has just returned or raised.
RulesDone == (pc = "ruled" \/ pc = "error") /\ metric # NoValue

MemberAndDate(row) == <<row.Member_number, row.Date>>
ParsedKeys == {k \in {MemberAndDate(data[r]) : r \in DOMAIN data} : k[2] # NaT}
ItemsOfKey(k) ==
    {data[r].itemDescription :
        r \in {q \in DOMAIN data : MemberAndDate(data[q]) = k}}
Built == pc = "encoded"

\* What the build does guarantee: the rows whose Date does not parse are left
\* out without a word; the result has exactly one transaction per distinct (member, date) of the other
\* rows, that transaction holds the items of the rows with that key and its
\* one-hot row is True in exactly their columns (an item repeated in a group
\* counts once, so every column sum counts a transaction at most once), every
\* item of a transaction is a column, and with zero transactions the cell
\* raises nothing and builds a table with no row and no column.
BuildKeepsParsedRows ==
    Built =>
        /\ error = "none"
        /\ Len(transactions) = Cardinality(ParsedKeys)
        /\ \A k \in ParsedKeys :
              \E g \in DOMAIN transactions : Range(transactions[g]) = ItemsOfKey(k)
        /\ \A g \in DOMAIN transactions :
              /\ \E k \in ParsedKeys : Range(transactions[g]) = ItemsOfKey(k)
              /\ Range(transactions[g]) \subseteq Range(df_transactions.columns)
              /\ \A c \in DOMAIN df_transactions.columns :
                    df_transactions.X[g][c] <=>
                        df_transactions.columns[c] \in Range(transactions[g])
        /\ \A c \in DOMAIN df_transactions.columns :
              np_sum(df_transactions.X, {c}, Len(df_transactions.X)) =
                  Cardinality({k \in ParsedKeys :
                                  df_transactions.columns[c] \in ItemsOfKey(k)})
        /\ Len(df_transactions.X) = Len(transactions)
        /\ (ParsedKeys = {}) =>
              (df_transactions.X = <<>> /\ df_transactions.columns = <<>>)

BuildGroupsRepeatedItems ==
    /\ Built
    /\ Len(transactions) = 2
    /\ \E g \in DOMAIN transactions :
          Len(transactions[g]) > Cardinality(Range(transactions[g]))
    /\ Len(data) = 3

\* C14: the build gives exactly one transaction per distinct group key
\* (member, date) of the input rows, holding the set of the items of the rows
\* with that key, and it fails with EmptyInputError, so never ends with zero
\* transactions.
C14_OnePerGroupKey ==
    (pc = "loaded" \/ pc = "encoded") =>
        /\ Len(transactions) =
              Cardinality({MemberAndDate(data[r]) : r \in DOMAIN data})
        /\ \A g \in DOMAIN transactions :
              \E r \in DOMAIN data :
                  Range(transactions[g]) = ItemsOfKey(MemberAndDate(data[r]))
        /\ Len(transactions) > 0

WholeMilk == CHOOSE i \in Items : item_names[i] = needle

\* C19: milk_related_rules holds a loaded rule exactly when the item 'whole
\* milk' is a member of the rule's antecedent.
C19_MilkIsMember ==
    pc = "queried" =>
        milk_related_rules = {r \in loaded_rules : WholeMilk \in r.antecedents}

\* The items named by a set of column indices, and the frequent itemsets of
\* size k as sets of column indices.
ItemsAt(c) == {df_transactions.columns[i] : i \in c}
FrequentColumns(k) ==
    {c \in SUBSET DOMAIN df_transactions.columns :
        Cardinality(c) = k /\ IsFrequent(ItemsAt(c), min_support)}

LargestTransaction ==
    Max({Cardinality(Range(transactions[r])) : r \in DOMAIN transactions})
InLoop == pc = "loop" \/ pc = "count" \/ pc = "collect"

\* C17 (as amended): level-wise mining terminates.  The loop stops at the
\* first level for which no candidate can be formed or none of the counted
\* candidates is frequent; the levels counted go up to the largest transaction
\* size plus one and no further, and no itemset larger than the largest
\* transaction is kept; the result is the union of the frequent itemsets of
\* the sizes 1 to the last level kept.
C17_Terminates ==
    /\ [](pc = "count" => lv.max_itemset + 1 <= LargestTransaction + 1)
    /\ [](InLoop =>
            \A k \in DOMAIN lv.dict :
                /\ k <= Max({1, LargestTransaction})
                /\ k > 1 => DOMAIN lv.dict[k] # {}
                /\ DOMAIN lv.dict[k] = FrequentColumns(k))
    /\ [](pc = "collect" =>
            /\ DOMAIN lv.dict = 1..lv.max_itemset
            /\ FrequentColumns(lv.max_itemset + 1) = {}
            /\ lv.combin # {} => DOMAIN lv.support = lv.combin)
    /\ [](pc = "mined" =>
            ItemsetsOf(frequent_itemsets) =
                UNION {{ItemsAt(c) : c \in FrequentColumns(k)} :
                          k \in 1..lv.max_itemset})
    /\ <>(pc = "mined" \/ pc = "error")

C17_Witness ==
    /\ pc = "collect"
    /\ lv.combin # {}
    /\ lv.max_itemset = 2
    /\ LargestTransaction = 2

\* C17: no level k greater than the largest transaction size is ever counted.
C17_NoLevelAboveLargest ==
    pc = "count" => lv.max_itemset + 1 <= LargestTransaction

\* C18: the guards of the divisions are never needed.  For every candidate
\* rule A -> C formed from a table mined with min_support > 0, the supports of
\* A and of C are in the table and are greater than zero, so no lookup fails
\* and no metric divides by zero (no consistency error is ever raised);
\* conviction is infinite exactly when confidence is 1, and is a quotient with
\* a non-zero divisor otherwise.
C18_GuardsUnreachable ==
    /\ error # "KeyError"
    /\ (pc = "mined") =>
          LET d == frequent_items_dict(frequent_itemsets)
          IN  /\ ~missing_key(frequent_itemsets)
              /\ \A k \in DOMAIN d : \A a \in antecedents_of(k) :
                    LET c == consequent_of(k, a)
                        conviction == conviction_helper(d[k], d[a], d[c])
                    IN  /\ RLt(RZero, d[a]) /\ d[a][2] # 0
                        /\ RLt(RZero, d[c]) /\ d[c][2] # 0
                        /\ REq(d[a], Support(a)) /\ REq(d[c], Support(c))
                        /\ confidence_helper(d[k], d[a], d[c])[2] # 0
                        /\ lift_helper(d[k], d[a], d[c])[2] # 0
                        /\ (conviction = RInf) <=> REq(Confidence(k, a), ROne)
                        /\ (conviction[2] = 0) <=> REq(Confidence(k, a), ROne)
    /\ (pc = "ruled") =>
          \A r \in rules :
              /\ (r.conviction = RInf) <=> REq(r.confidence, ROne)
              /\ r.confidence[2] # 0 /\ r.lift[2] # 0

C18_Witness ==
    /\ pc = "ruled"
    /\ \E r \in rules : r.conviction = RInf
    /\ \E r \in rules : r.conviction[2] # 0 /\ RLt(r.confidence, ROne)
    /\ RLt(min_support, ROne)

====
